---------------------------- MODULE Spec2Model ----------------------------
(***************************************************************************)
(* Session / event-bus subsystem of portia-agents (backend/app).           *)
(*                                                                         *)
(*   services/session_service.py  SessionService: session store, event    *)
(*                                log, subscriber registry, broadcast      *)
(*   services/portia_service.py   execution driver, step hook, the shared  *)
(*                                "current session" slot                   *)
(*   api/sessions.py              request handlers, the SSE generator,     *)
(*                                the background task boundary             *)
(*                                                                         *)
(* One action is one uninterrupted run of code on the event loop: a       *)
(* request handler, or a coroutine between two suspension points.  A       *)
(* worker thread takes no lock, so each of its broadcasts is two actions,  *)
(* the append to the log and the fan-out.  Python dicts are functions      *)
(* whose DOMAIN is the key set; Optional values are <<>> (None) or <<v>>.  *)
(***************************************************************************)
EXTENDS Integers, Sequences, FiniteSets, TLC

\* ------------------------------------------------------------------ bounds
\* Capacities of the program, scaled down (200, 100 and 20 in the source).
MAX_EVENTS_PER_SESSION == 3
QUEUE_MAXSIZE == 2
REPLAY_LIMIT == 2
\* Step notifications the collaborator reports in one run, at most.
MaxSteps == 1

\* The explored universes.  A behaviour stays within one of them: how many
\* sessions are created, how many executions are spawned, how many streams
\* are opened, how many steps a run reports.
\* The universes in which progress is checked.
FairUniverses ==
  { [sessions |-> 1, runs |-> 2, streams |-> 0, steps |-> 0],
    [sessions |-> 1, runs |-> 1, streams |-> 1, steps |-> MaxSteps] }

Universes ==
  { [sessions |-> 2, runs |-> 2, streams |-> 0, steps |-> MaxSteps],
    [sessions |-> 1, runs |-> 1, streams |-> 2, steps |-> MaxSteps],
    [sessions |-> 1, runs |-> 2, streams |-> 1, steps |-> 0],
    [sessions |-> 2, runs |-> 2, streams |-> 1, steps |-> 0],
    [sessions |-> 1, runs |-> 3, streams |-> 0, steps |-> 0] } \cup FairUniverses

Largest(S) == CHOOSE n \in S : \A m \in S : m <= n

\* uuid4 tokens, in the order create_session hands them out.
SessionName == <<"s1", "s2", "s3", "s4">>
SessionIds == {SessionName[i] : i \in 1..Largest({u.sessions : u \in Universes})}
Tasks == 1..Largest({u.runs : u \in Universes})
Streams == 1..Largest({u.streams : u \in Universes})

\* ------------------------------------------------------------- vocabulary
None == <<>>
\* _current_session_id when it names no session: None at import, "" once
\* cleared; stream_step treats both alike (`if not session_id`).
NoSessionId == ""
Some(v) == <<v>>

QueryTypes == {"chat", "research", "docs"}

\* config.py: the fixed tool list of each query type (identifiers abstracted).
tool_map ==
  [qt \in QueryTypes |->
     CASE qt = "chat" -> {"llm_tool", "search_tool"}
       [] qt = "research" -> {"llm_tool", "search_tool", "crawl_tool"}
       [] qt = "docs" -> {"llm_tool", "doc_mcp_make_query"}]

AllTools == UNION {tool_map[qt] : qt \in QueryTypes}

\* PortiaService._get_available_tools_map().keys() in the deployment that is
\* explored: the registries offer everything but the remote documentation
\* tool, so "docs" requests name an unsupported tool and the others do not.
available_tools == AllTools \ {"doc_mcp_make_query"}

\* The query types that requests are drawn from.
RequestTypes == {"chat", "docs"}

Results == {"r1"}
Errors == {"e1"}
InvalidToolsMessage == "invalid_tools"
ExecutionTime == "secs"

VARIABLES
  sessions,             \* SessionService._sessions
  session_events,       \* SessionService._session_events
  session_connections,  \* SessionService._session_connections
  queues,               \* the asyncio.Queue owned by each stream
  current_session_id,   \* portia_service._current_session_id
  task,                 \* background tasks running _execute_session
  stream,               \* stream_session_events requests and generators
  response,             \* what the step just taken returned to its caller
  allocated,            \* session ids handed out so far (uuid4 never repeats)
  clock,                \* per session: number of events broadcast so far
  log_base,             \* history: the clock when the session's log was created
  started_from,         \* history: the status change that wrote started_at
  universe              \* the universe this behaviour stays within

vars == <<sessions, session_events, session_connections, queues,
          current_session_id, task, stream,
          response, allocated, clock, log_base, started_from, universe>>

\* ------------------------------------------------------------ dict helpers
Put(f, k, v) == [x \in (DOMAIN f) \cup {k} |-> IF x = k THEN v ELSE f[x]]
Pop(f, k) == [x \in (DOMAIN f) \ {k} |-> f[x]]
Get(f, k, default) == IF k \in DOMAIN f THEN f[k] ELSE default
EmptyDict == [x \in {} |-> None]

Min(a, b) == IF a < b THEN a ELSE b

\* Python events[-limit:] for a list and an integer limit.
LastN(seq, limit) ==
  IF limit = 0 THEN seq
  ELSE IF limit > 0
       THEN SubSeq(seq, (IF Len(seq) > limit THEN Len(seq) - limit + 1 ELSE 1), Len(seq))
       ELSE SubSeq(seq, Min(0 - limit, Len(seq)) + 1, Len(seq))

\* ------------------------------------------------------------------ schemas
NewSessionStatus(now) ==
  [status |-> "pending", created_at |-> now, started_at |-> None,
   completed_at |-> None, result |-> None, error |-> None,
   execution_time |-> None]

StepEvent(sid, stamp, kind) ==
  [session_id |-> sid, timestamp |-> stamp, event_type |-> kind]

\* ------------------------------------------------------------ SessionService
\* Mutant of update_session_status: the terminal branch tests "failed" only.
update_session_status_FailedOnly(ss, sid, status, result, error, execution_time, now) ==
  IF sid \notin DOMAIN ss THEN ss
  ELSE LET session == [ss[sid] EXCEPT !.status = status] IN
       IF status = "running" /\ session.started_at = None
       THEN Put(ss, sid, [session EXCEPT !.started_at = Some(now)])
       ELSE IF status \in {"failed"}
       THEN Put(ss, sid, [session EXCEPT !.completed_at = Some(now),
                                         !.result = result,
                                         !.error = error,
                                         !.execution_time = execution_time])
       ELSE Put(ss, sid, session)

\* Mutant of update_session_status: `and not session.started_at` is missing.
update_session_status_AlwaysStamp(ss, sid, status, result, error, execution_time, now) ==
  IF sid \notin DOMAIN ss THEN ss
  ELSE LET session == [ss[sid] EXCEPT !.status = status] IN
       IF status = "running"
       THEN Put(ss, sid, [session EXCEPT !.started_at = Some(now)])
       ELSE IF status \in {"completed", "failed"}
       THEN Put(ss, sid, [session EXCEPT !.completed_at = Some(now),
                                         !.result = result,
                                         !.error = error,
                                         !.execution_time = execution_time])
       ELSE Put(ss, sid, session)

\* Mutant of update_session_status: result and error are written only when
\* the caller passes one, so the value of an earlier run survives.
update_session_status_KeepOld(ss, sid, status, result, error, execution_time, now) ==
  IF sid \notin DOMAIN ss THEN ss
  ELSE LET session == [ss[sid] EXCEPT !.status = status] IN
       IF status = "running" /\ session.started_at = None
       THEN Put(ss, sid, [session EXCEPT !.started_at = Some(now)])
       ELSE IF status \in {"completed", "failed"}
       THEN Put(ss, sid, [session EXCEPT !.completed_at = Some(now),
                                         !.result = IF result # None THEN result ELSE @,
                                         !.error = IF error # None THEN error ELSE @,
                                         !.execution_time = execution_time])
       ELSE Put(ss, sid, session)

\* Mutant of update_session_status: an unknown id gets a fresh entry.
update_session_status_Upsert(ss, sid, status, result, error, execution_time, now) ==
  LET known == IF sid \in DOMAIN ss THEN ss[sid] ELSE NewSessionStatus(now)
      session == [known EXCEPT !.status = status] IN
  IF status = "running" /\ session.started_at = None
  THEN Put(ss, sid, [session EXCEPT !.started_at = Some(now)])
  ELSE IF status \in {"completed", "failed"}
  THEN Put(ss, sid, [session EXCEPT !.completed_at = Some(now),
                                    !.result = result,
                                    !.error = error,
                                    !.execution_time = execution_time])
  ELSE Put(ss, sid, session)

update_session_status(ss, sid, status, result, error, execution_time, now) ==
  IF sid \notin DOMAIN ss THEN ss
  ELSE LET session == [ss[sid] EXCEPT !.status = status] IN
       IF status = "running" /\ session.started_at = None
       THEN Put(ss, sid, [session EXCEPT !.started_at = Some(now)])
       ELSE IF status \in {"completed", "failed"}
       THEN Put(ss, sid, [session EXCEPT !.completed_at = Some(now),
                                         !.result = result,
                                         !.error = error,
                                         !.execution_time = execution_time])
       ELSE Put(ss, sid, session)

add_connection(sc, sid, q) == Put(sc, sid, Get(sc, sid, {}) \cup {q})

\* Mutant of remove_connection: the emptied set is left in the registry.
remove_connection_KeepEmpty(sc, sid, q) ==
  Put(sc, sid, Get(sc, sid, {}) \ {q})

remove_connection(sc, sid, q) ==
  LET rest == Get(sc, sid, {}) \ {q} IN
  IF rest = {} THEN Pop(sc, sid) ELSE Put(sc, sid, rest)

RECURSIVE RemoveAll(_, _, _)
RemoveAll(sc, sid, qset) ==
  IF qset = {} THEN sc
  ELSE LET q == CHOOSE x \in qset : TRUE IN
       RemoveAll(remove_connection(sc, sid, q), sid, qset \ {q})

\* The bus: the three structures broadcast_event reads and writes.
Bus(se, sc, qs) == [events |-> se, connections |-> sc, queues |-> qs]

\* Mutant of StoreEvent: pop() instead of pop(0), the newest entry is evicted.
StoreEvent_EvictNewest(events, event) ==
  LET appended == Append(events, event) IN
  IF Len(appended) > MAX_EVENTS_PER_SESSION
  THEN SubSeq(appended, 1, Len(appended) - 1) ELSE appended

StoreEvent(events, event) ==
  LET appended == Append(events, event) IN
  IF Len(appended) > MAX_EVENTS_PER_SESSION THEN Tail(appended) ELSE appended

QueueFull(q) == Len(q) >= QUEUE_MAXSIZE

\* Mutant of broadcast_event: a full subscriber is skipped but stays registered.
broadcast_event_KeepFull(bus, sid, event) ==
  LET events == StoreEvent(Get(bus.events, sid, <<>>), event)
      connections == Get(bus.connections, sid, {})
      disconnected == {q \in connections : QueueFull(bus.queues[q])}
  IN  [events |-> Put(bus.events, sid, events),
       connections |-> bus.connections,
       queues |-> [q \in DOMAIN bus.queues |->
                     IF q \in connections \ disconnected
                     THEN Append(bus.queues[q], event)
                     ELSE bus.queues[q]]]

\* Mutant of broadcast_event: nothing is stored while nobody listens.
broadcast_event_SkipIdle(bus, sid, event) ==
  LET events == StoreEvent(Get(bus.events, sid, <<>>), event)
      connections == Get(bus.connections, sid, {})
      disconnected == {q \in connections : QueueFull(bus.queues[q])}
  IN  [events |-> IF connections = {} THEN bus.events
                  ELSE Put(bus.events, sid, events),
       connections |-> RemoveAll(bus.connections, sid, disconnected),
       queues |-> [q \in DOMAIN bus.queues |->
                     IF q \in connections \ disconnected
                     THEN Append(bus.queues[q], event)
                     ELSE bus.queues[q]]]

broadcast_event(bus, sid, event) ==
  LET events == StoreEvent(Get(bus.events, sid, <<>>), event)
      connections == Get(bus.connections, sid, {})
      disconnected == {q \in connections : QueueFull(bus.queues[q])}
  IN  [events |-> Put(bus.events, sid, events),
       connections |-> RemoveAll(bus.connections, sid, disconnected),
       queues |-> [q \in DOMAIN bus.queues |->
                     IF q \in connections \ disconnected
                     THEN Append(bus.queues[q], event)
                     ELSE bus.queues[q]]]

\* broadcast_event as a worker thread runs it.  No lock is taken, so the
\* event loop can run between its two halves: the append to the log
\* (events.append, events.pop(0)) ...
broadcast_event_append(bus, sid, event) ==
  [events |-> Put(bus.events, sid, StoreEvent(Get(bus.events, sid, <<>>), event)),
   connections |-> bus.connections,
   queues |-> bus.queues]

\* ... and the fan-out over the connections found registered then.
broadcast_event_fanout(bus, sid, event) ==
  LET connections == Get(bus.connections, sid, {})
      disconnected == {q \in connections : QueueFull(bus.queues[q])}
  IN  [events |-> bus.events,
       connections |-> RemoveAll(bus.connections, sid, disconnected),
       queues |-> [q \in DOMAIN bus.queues |->
                     IF q \in connections \ disconnected
                     THEN Append(bus.queues[q], event)
                     ELSE bus.queues[q]]]

get_session_events(se, sid, limit) ==
  LET events == Get(se, sid, <<>>) IN
  IF events # <<>> THEN LastN(events, limit) ELSE <<>>

HasConnections(sc, sid) == Get(sc, sid, {}) # {}



\* ------------------------------------------------- broadcasting in a step
\* The bus together with the per-session clock and its history.
World == [events |-> session_events, connections |-> session_connections,
          queues |-> queues, clock |-> clock, log_base |-> log_base]

\* StepEvent(..., timestamp=now, event_type=kind) followed by broadcast_event.
Emit(w, sid, kind) ==
  LET stamp == w.clock[sid] + 1
      event == StepEvent(sid, stamp, kind)
      bus == broadcast_event(Bus(w.events, w.connections, w.queues), sid, event)
  IN  [events |-> bus.events, connections |-> bus.connections,
       queues |-> bus.queues,
       clock |-> [w.clock EXCEPT ![sid] = stamp],
       log_base |-> IF sid \in DOMAIN w.events THEN w.log_base
                    ELSE [w.log_base EXCEPT ![sid] = w.clock[sid]]]

\* The first half of a worker thread's broadcast: the event is stamped and
\* appended to the log.
EmitAppend(w, sid, kind) ==
  LET stamp == w.clock[sid] + 1
      event == StepEvent(sid, stamp, kind)
      bus == broadcast_event_append(Bus(w.events, w.connections, w.queues), sid, event)
  IN  [events |-> bus.events, connections |-> bus.connections,
       queues |-> bus.queues,
       clock |-> [w.clock EXCEPT ![sid] = stamp],
       log_base |-> IF sid \in DOMAIN w.events THEN w.log_base
                    ELSE [w.log_base EXCEPT ![sid] = w.clock[sid]]]

\* The second half: the event appended earlier is put on the queues.
EmitFanout(w, sid, event) ==
  LET bus == broadcast_event_fanout(Bus(w.events, w.connections, w.queues), sid, event)
  IN  [events |-> bus.events, connections |-> bus.connections,
       queues |-> bus.queues, clock |-> w.clock, log_base |-> w.log_base]

Commit(w) ==
  /\ session_events' = w.events
  /\ session_connections' = w.connections
  /\ queues' = w.queues
  /\ clock' = w.clock
  /\ log_base' = w.log_base

BusUnchanged == UNCHANGED <<session_events, session_connections, queues, clock, log_base>>

\* ------------------------------------------------------------------- Init
IdleTask == [pc |-> "idle", origin |-> "", session_id |-> NoSessionId, query_type |-> "",
             steps |-> 0, target |-> NoSessionId, stamp |-> 0,
             appended |-> <<>>, published |-> <<>>, outcome |-> ""]

IdleStream == [pc |-> "idle", session_id |-> NoSessionId, pending |-> <<>>,
               emitted |-> <<>>, connected_at |-> 0, log_at_open |-> <<>>]

NoResponse == [op |-> "", code |-> 0, session_id |-> NoSessionId, query_type |-> "",
               limit |-> 0, events |-> <<>>]
Response(op, code, sid, qt) ==
  [NoResponse EXCEPT !.op = op, !.code = code, !.session_id = sid, !.query_type = qt]

Init ==
  /\ sessions = EmptyDict
  /\ session_events = EmptyDict
  /\ session_connections = EmptyDict
  /\ queues = [q \in Streams |-> <<>>]
  /\ current_session_id = NoSessionId
  /\ task = [t \in Tasks |-> IdleTask]
  /\ stream = [q \in Streams |-> IdleStream]
  /\ response = NoResponse
  /\ allocated = {}
  /\ clock = [s \in SessionIds |-> 0]
  /\ log_base = [s \in SessionIds |-> 0]
  /\ started_from = [s \in SessionIds |-> None]
  /\ universe \in Universes

\* ------------------------------------------------------- request handlers
IdleTasks == {t \in Tasks : t <= universe.runs /\ task[t].pc = "idle"}
NextTask == CHOOSE t \in IdleTasks : \A u \in IdleTasks : t <= u

\* asyncio.create_task(_execute_session(session_id, query, query_type, repo))
Spawn(origin, sid, qt) ==
  task' = [task EXCEPT ![NextTask] =
             [IdleTask EXCEPT !.pc = "spawned", !.origin = origin,
                              !.session_id = sid, !.query_type = qt]]

\* A request can name a session only once its identifier has reached a
\* client.  create_session returns the fresh uuid after create_task has
\* queued the task, so the task's first run precedes every request that
\* carries the identifier.
Known(sid) ==
  ~ \E t \in Tasks : /\ task[t].pc = "spawned"
                      /\ task[t].origin = "create"
                      /\ task[t].session_id = sid

\* POST /sessions
CreateSession(qt) ==
  /\ UNCHANGED universe
  /\ Cardinality(allocated) < universe.sessions
  /\ IdleTasks # {}
  /\ LET sid == SessionName[Cardinality(allocated) + 1] IN
       /\ allocated' = allocated \cup {sid}
       /\ sessions' = Put(sessions, sid, NewSessionStatus(clock[sid]))
       /\ Spawn("create", sid, qt)
       /\ response' = Response("create", 201, sid, qt)
  /\ BusUnchanged
  /\ UNCHANGED <<current_session_id, stream, started_from>>

\* Mutant of add_message_to_session: the check for a running session is missing.
add_message_to_session_NoConflict(sid, qt) ==
  /\ UNCHANGED universe
  /\ Known(sid)
  /\ BusUnchanged
  /\ UNCHANGED <<current_session_id, stream, started_from, allocated>>
  /\ IF sid \notin DOMAIN sessions
     THEN /\ response' = Response("continue", 404, sid, qt)
          /\ UNCHANGED <<sessions, task>>
     ELSE /\ IdleTasks # {}
          /\ sessions' = update_session_status(sessions, sid, "pending",
                                               None, None, None, clock[sid])
          /\ Spawn("continue", sid, qt)
          /\ response' = Response("continue", 200, sid, qt)

\* POST /sessions/{session_id}/messages
add_message_to_session(sid, qt) ==
  /\ UNCHANGED universe
  /\ Known(sid)
  /\ BusUnchanged
  /\ UNCHANGED <<current_session_id, stream,
                 started_from, allocated>>
  /\ IF sid \notin DOMAIN sessions
     THEN /\ response' = Response("continue", 404, sid, qt)
          /\ UNCHANGED <<sessions, task>>
     ELSE IF sessions[sid].status = "running"
     THEN /\ response' = Response("continue", 409, sid, qt)
          /\ UNCHANGED <<sessions, task>>
     ELSE /\ IdleTasks # {}
          /\ sessions' = update_session_status(sessions, sid, "pending",
                                               None, None, None, clock[sid])
          /\ Spawn("continue", sid, qt)
          /\ response' = Response("continue", 200, sid, qt)

\* Mutant of cleanup_session: the check for active connections is missing.
cleanup_session_Forced(ss, se, sc, sid) ==
  [sessions |-> Pop(ss, sid), events |-> Pop(se, sid), connections |-> Pop(sc, sid)]

cleanup_session(ss, se, sc, sid) ==
  IF HasConnections(sc, sid)
  THEN [sessions |-> ss, events |-> se, connections |-> sc]
  ELSE [sessions |-> Pop(ss, sid), events |-> Pop(se, sid), connections |-> Pop(sc, sid)]

\* DELETE /sessions/{session_id}
delete_session(sid) ==
  /\ UNCHANGED universe
  /\ Known(sid)
  /\ UNCHANGED <<queues, clock, log_base, current_session_id,
                 task, stream, started_from, allocated>>
  /\ IF sid \notin DOMAIN sessions
     THEN /\ response' = Response("delete", 404, sid, "")
          /\ UNCHANGED <<sessions, session_events, session_connections>>
     ELSE LET c == cleanup_session(sessions, session_events, session_connections, sid) IN
          /\ sessions' = c.sessions
          /\ session_events' = c.events
          /\ session_connections' = c.connections
          /\ response' = Response("delete", 200, sid, "")

\* The values of the `limit` query parameter that requests are drawn from.
Limits == {0, REPLAY_LIMIT}

\* GET /sessions/{session_id}/events?limit=
GetSessionEvents(sid, limit) ==
  /\ UNCHANGED universe
  /\ Known(sid)
  /\ BusUnchanged
  /\ UNCHANGED <<sessions, current_session_id, task, stream, started_from, allocated>>
  /\ IF sid \notin DOMAIN sessions
     THEN response' = Response("events", 404, sid, "")
     ELSE response' = [Response("events", 200, sid, "") EXCEPT
                         !.limit = limit,
                         !.events = get_session_events(session_events, sid, limit)]

\* ------------------------------------------------------- execution driver
\* PortiaService._get_portia_instance: TRUE when it returns an instance,
\* FALSE when it raises InvalidToolsError.  (The cached instance is reused
\* only for a tool set that passed this test before.)
PortiaInstanceAvailable(tools) == tools \subseteq available_tools

\* Ghost: the status change performed by the update that writes started_at.
StartedWrite(ss, sid, status) ==
  IF sid \in DOMAIN ss /\ status = "running" /\ ss[sid].started_at = None
  THEN [started_from EXCEPT ![sid] = Some(<<ss[sid].status, status>>)]
  ELSE started_from

\* History: what the session store holds for sid at the moment the driver
\* broadcasts an event of this kind.
AtPublish(ss, sid, kind) ==
  [event_type |-> kind,
   status |-> IF sid \in DOMAIN ss THEN Some(ss[sid].status) ELSE None,
   result |-> IF sid \in DOMAIN ss THEN ss[sid].result ELSE None,
   error |-> IF sid \in DOMAIN ss THEN ss[sid].error ELSE None]

\* _execute_session up to its first suspension: run_query_with_session
\* broadcasts user_message, sets the status to running, broadcasts
\* session_started, sets the session slot and enters run_query.  Either
\* the call is handed to the worker pool (run_in_executor), or
\* _get_portia_instance raises, the slot is cleared by `finally` and the
\* exception is caught at the task boundary.
DriverStart(t) ==
  /\ UNCHANGED universe
  /\ task[t].pc = "spawned"
  /\ LET sid == task[t].session_id
         tools == tool_map[task[t].query_type]
         w1 == Emit(World, sid, "user_message")
         s1 == update_session_status(sessions, sid, "running", None, None, None,
                                     w1.clock[sid])
         w2 == Emit(w1, sid, "session_started")
     IN  /\ Commit(w2)
         /\ started_from' = StartedWrite(sessions, sid, "running")
         /\ IF PortiaInstanceAvailable(tools)
            THEN /\ current_session_id' = sid
                 /\ sessions' = s1
                 /\ task' = [task EXCEPT ![t].pc = "executing",
                                         ![t].query_type = "",
                                         ![t].published = <<AtPublish(s1, sid, "session_started")>>,
                                         ![t].appended = <<"user_message", "session_started">>]
            ELSE /\ current_session_id' = NoSessionId
                 /\ sessions' = update_session_status(s1, sid, "failed", None,
                                   Some(InvalidToolsMessage), None, w2.clock[sid])
                 /\ task' = [task EXCEPT ![t].pc = "done",
                                         ![t].query_type = "",
                                         ![t].outcome = "raised",
                                         ![t].published = <<AtPublish(s1, sid, "session_started")>>,
                                         ![t].appended = <<"user_message", "session_started">>]
  /\ response' = NoResponse
  /\ UNCHANGED <<stream, allocated>>

\* stream_step runs on the worker thread that executes the collaborator
\* call.  It reads the slot, returns if it names no session, and else
\* broadcasts step_update and step_completed to the session it read.  Each
\* broadcast is two steps of the thread: append, then fan-out.
StepUpdate(t) ==
  /\ UNCHANGED universe
  /\ task[t].pc = "executing"
  /\ task[t].steps < universe.steps
  /\ IF current_session_id = NoSessionId
     THEN /\ task' = [task EXCEPT ![t].steps = @ + 1]
          /\ BusUnchanged
     ELSE /\ Commit(EmitAppend(World, current_session_id, "step_update"))
          /\ task' = [task EXCEPT ![t].pc = "update_appended",
                                  ![t].target = current_session_id,
                                  ![t].stamp = clock[current_session_id] + 1,
                                  ![t].appended =
                                     IF current_session_id = task[t].session_id
                                     THEN Append(@, "step_update") ELSE @]
  /\ response' = NoResponse
  /\ UNCHANGED <<sessions, current_session_id,
                 stream, allocated, started_from>>

StepUpdateFanout(t) ==
  /\ UNCHANGED universe
  /\ task[t].pc = "update_appended"
  /\ Commit(EmitFanout(World, task[t].target,
                       StepEvent(task[t].target, task[t].stamp, "step_update")))
  /\ task' = [task EXCEPT ![t].pc = "step", ![t].stamp = 0]
  /\ response' = NoResponse
  /\ UNCHANGED <<sessions, current_session_id,
                 stream, allocated, started_from>>

StepCompleted(t) ==
  /\ UNCHANGED universe
  /\ task[t].pc = "step"
  /\ Commit(EmitAppend(World, task[t].target, "step_completed"))
  /\ task' = [task EXCEPT ![t].pc = "completed_appended",
                          ![t].stamp = clock[task[t].target] + 1,
                          ![t].appended =
                             IF task[t].target = task[t].session_id
                             THEN Append(@, "step_completed") ELSE @]
  /\ response' = NoResponse
  /\ UNCHANGED <<sessions, current_session_id,
                 stream, allocated, started_from>>

StepCompletedFanout(t) ==
  /\ UNCHANGED universe
  /\ task[t].pc = "completed_appended"
  /\ Commit(EmitFanout(World, task[t].target,
                       StepEvent(task[t].target, task[t].stamp, "step_completed")))
  /\ task' = [task EXCEPT ![t].pc = "executing",
                          ![t].steps = @ + 1,
                          ![t].target = NoSessionId,
                          ![t].stamp = 0]
  /\ response' = NoResponse
  /\ UNCHANGED <<sessions, current_session_id,
                 stream, allocated, started_from>>

\* Mutant of DriverFinish: the terminal event is broadcast but the final
\* status is not written.
DriverFinish_NoStatus(t, success) ==
  /\ UNCHANGED universe
  /\ task[t].pc = "executing"
  /\ LET sid == task[t].session_id
         kind == IF success THEN "session_completed" ELSE "session_failed"
     IN  /\ Commit(Emit(World, sid, kind))
         /\ task' = [task EXCEPT ![t].pc = "done",
                                 ![t].outcome = IF success THEN "success" ELSE "failure",
                                 ![t].published = Append(@, AtPublish(sessions, sid, kind)),
                                 ![t].appended = Append(@, kind)]
  /\ current_session_id' = NoSessionId
  /\ response' = NoResponse
  /\ UNCHANGED <<sessions, stream, allocated, started_from>>

\* Mutant of DriverFinish: the terminal event is broadcast before the final
\* status is written.
DriverFinish_PublishFirst(t, success) ==
  /\ UNCHANGED universe
  /\ task[t].pc = "executing"
  /\ LET sid == task[t].session_id
         status == IF success THEN "completed" ELSE "failed"
         kind == IF success THEN "session_completed" ELSE "session_failed"
     IN  /\ \E payload \in (IF success THEN Results ELSE Errors) :
               sessions' = update_session_status(sessions, sid, status,
                              (IF success THEN Some(payload) ELSE None),
                              (IF success THEN None ELSE Some(payload)),
                              Some(ExecutionTime), clock[sid])
         /\ Commit(Emit(World, sid, kind))
         /\ task' = [task EXCEPT ![t].pc = "done",
                                 ![t].outcome = IF success THEN "success" ELSE "failure",
                                 ![t].published = Append(@, AtPublish(sessions, sid, kind)),
                                 ![t].appended = Append(@, kind)]
  /\ current_session_id' = NoSessionId
  /\ response' = NoResponse
  /\ UNCHANGED <<stream, allocated, started_from>>

\* The collaborator call has returned and run_query_with_session resumes:
\* final status, terminal event, slot cleared.
DriverFinish(t, success) ==
  /\ UNCHANGED universe
  /\ task[t].pc = "executing"
  /\ LET sid == task[t].session_id
         status == IF success THEN "completed" ELSE "failed"
         kind == IF success THEN "session_completed" ELSE "session_failed"
     IN  /\ \E payload \in (IF success THEN Results ELSE Errors) :
               sessions' = update_session_status(sessions, sid, status,
                              (IF success THEN Some(payload) ELSE None),
                              (IF success THEN None ELSE Some(payload)),
                              Some(ExecutionTime), clock[sid])
         /\ Commit(Emit(World, sid, kind))
         /\ task' = [task EXCEPT ![t].pc = "done",
                                 ![t].outcome = IF success THEN "success" ELSE "failure",
                                 ![t].published = Append(@, AtPublish(sessions', sid, kind)),
                                 ![t].appended = Append(@, kind)]
  /\ current_session_id' = NoSessionId
  /\ response' = NoResponse
  /\ UNCHANGED <<stream, allocated, started_from>>

\* --------------------------------------------------------------- streaming
IdleStreams == {q \in Streams : q <= universe.streams /\ stream[q].pc = "idle"}
NextStream == CHOOSE q \in IdleStreams : \A r \in IdleStreams : q <= r

\* GET /sessions/{session_id}/stream: the handler itself.
stream_session_events(sid) ==
  /\ UNCHANGED universe
  /\ Known(sid)
  /\ IdleStreams # {}
  /\ IF sid \notin DOMAIN sessions
     THEN /\ response' = Response("stream", 404, sid, "")
          /\ UNCHANGED stream
     ELSE /\ response' = Response("stream", 200, sid, "")
          /\ stream' = [stream EXCEPT ![NextStream] =
                          [IdleStream EXCEPT !.pc = "opened", !.session_id = sid]]
  /\ BusUnchanged
  /\ UNCHANGED <<sessions, current_session_id,
                 task, allocated, started_from>>

Emitted(event, historical) == [event |-> event, is_historical |-> historical]

\* event_generator up to its first yield: queue, add_connection, connected.
\* (connected_at is the timestamp of the connected event; log_at_open is
\* history: the stored events of the session when the stream registered.)
GenConnect(q) ==
  /\ UNCHANGED universe
  /\ stream[q].pc = "opened"
  /\ session_connections' = add_connection(session_connections, stream[q].session_id, q)
  /\ stream' = [stream EXCEPT ![q].pc = "connected",
                              ![q].connected_at = clock[stream[q].session_id],
                              ![q].log_at_open =
                                 Get(session_events, stream[q].session_id, <<>>)]
  /\ response' = Response("connected", 0, stream[q].session_id, "")
  /\ UNCHANGED <<sessions, session_events, queues, clock, log_base,
                 current_session_id, task,
                 allocated, started_from>>

\* Resumed after `connected`: take the replay snapshot and yield its first
\* event, or enter the live loop when there is nothing to replay.
GenReplay(q) ==
  /\ UNCHANGED universe
  /\ stream[q].pc = "connected"
  /\ LET recent == get_session_events(session_events, stream[q].session_id, REPLAY_LIMIT) IN
       stream' = [stream EXCEPT ![q] =
                    IF recent = <<>>
                    THEN [@ EXCEPT !.pc = "live"]
                    ELSE [@ EXCEPT !.pc = "replaying",
                                   !.pending = Tail(recent),
                                   !.emitted = Append(@, Emitted(Head(recent), TRUE))]]
  /\ response' = NoResponse
  /\ BusUnchanged
  /\ UNCHANGED <<sessions, current_session_id,
                 task, allocated, started_from>>

\* Resumed after a replayed event: yield the next one or enter the live loop.
GenReplayNext(q) ==
  /\ UNCHANGED universe
  /\ stream[q].pc = "replaying"
  /\ stream' = [stream EXCEPT ![q] =
                  IF stream[q].pending = <<>>
                  THEN [@ EXCEPT !.pc = "live"]
                  ELSE [@ EXCEPT !.pending = Tail(@),
                                 !.emitted = Append(@, Emitted(Head(stream[q].pending), TRUE))]]
  /\ response' = NoResponse
  /\ BusUnchanged
  /\ UNCHANGED <<sessions, current_session_id,
                 task, allocated, started_from>>

\* Live loop: client_queue.get() returned an event, which is yielded.
GenLive(q) ==
  /\ UNCHANGED universe
  /\ stream[q].pc = "live"
  /\ queues[q] # <<>>
  /\ queues' = [queues EXCEPT ![q] = Tail(@)]
  /\ stream' = [stream EXCEPT ![q].emitted = Append(@, Emitted(Head(queues[q]), FALSE))]
  /\ response' = NoResponse
  /\ UNCHANGED <<sessions, session_events, session_connections, clock, log_base,
                 current_session_id, task,
                 allocated, started_from>>

\* Mutant of GenHeartbeat: the heartbeat is sent through broadcast_event.
GenHeartbeat_Broadcast(q) ==
  /\ UNCHANGED universe
  /\ stream[q].pc = "live"
  /\ queues[q] = <<>>
  /\ response' = Response("heartbeat", 0, stream[q].session_id, "")
  /\ Commit(Emit(World, stream[q].session_id, "heartbeat"))
  /\ UNCHANGED <<sessions, current_session_id,
                 task, stream, allocated, started_from>>

\* Live loop: wait_for timed out on an empty queue, heartbeat yielded.
GenHeartbeat(q) ==
  /\ UNCHANGED universe
  /\ stream[q].pc = "live"
  /\ queues[q] = <<>>
  /\ response' = Response("heartbeat", 0, stream[q].session_id, "")
  /\ BusUnchanged
  /\ UNCHANGED <<sessions, current_session_id,
                 task, stream, allocated, started_from>>

\* Mutant of GenClose: the generator ends without its `finally` block.
GenClose_NoUnregister(q) ==
  /\ UNCHANGED universe
  /\ stream[q].pc \in {"connected", "replaying", "live"}
  /\ queues' = [queues EXCEPT ![q] = <<>>]
  /\ stream' = [stream EXCEPT ![q] = [IdleStream EXCEPT !.pc = "closed"]]
  /\ response' = NoResponse
  /\ UNCHANGED <<sessions, session_events, session_connections, clock, log_base,
                 current_session_id, task,
                 allocated, started_from>>

\* The generator ends (peer gone, exception, generator closed): `finally`
\* calls remove_connection.  Its queue is dropped with it.
GenClose(q) ==
  /\ UNCHANGED universe
  /\ stream[q].pc \in {"connected", "replaying", "live"}
  /\ session_connections' = remove_connection(session_connections, stream[q].session_id, q)
  /\ queues' = [queues EXCEPT ![q] = <<>>]
  /\ stream' = [stream EXCEPT ![q] = [IdleStream EXCEPT !.pc = "closed"]]
  /\ response' = NoResponse
  /\ UNCHANGED <<sessions, session_events, clock, log_base,
                 current_session_id, task,
                 allocated, started_from>>

\* ------------------------------------------------------------------- Next
Next ==
  \/ \E qt \in RequestTypes : CreateSession(qt)
  \/ \E sid \in SessionIds, qt \in RequestTypes : add_message_to_session(sid, qt)
  \/ \E sid \in SessionIds : delete_session(sid)
  \/ \E sid \in SessionIds : stream_session_events(sid)
  \/ \E sid \in SessionIds, limit \in Limits : GetSessionEvents(sid, limit)
  \/ \E t \in Tasks : DriverStart(t)
  \/ \E t \in Tasks : StepUpdate(t)
  \/ \E t \in Tasks : StepUpdateFanout(t)
  \/ \E t \in Tasks : StepCompleted(t)
  \/ \E t \in Tasks : StepCompletedFanout(t)
  \/ \E t \in Tasks, success \in BOOLEAN : DriverFinish(t, success)
  \/ \E q \in Streams : GenConnect(q)
  \/ \E q \in Streams : GenReplay(q)
  \/ \E q \in Streams : GenReplayNext(q)
  \/ \E q \in Streams : GenLive(q)
  \/ \E q \in Streams : GenHeartbeat(q)
  \/ \E q \in Streams : GenClose(q)

Spec == Init /\ [][Next]_vars

\* ------------------------------------------------------------- scheduling
\* The event loop runs every task that is ready: a spawned execution is
\* started, and a stream's generator that was resumed runs to its next
\* yield.  A worker thread that has entered stream_step runs it to its end,
\* and the collaborator call returns.  Nothing obliges the collaborator to
\* report a step, a client to send a request, or a peer to disconnect.
Fairness ==
  /\ \A t \in Tasks :
       /\ WF_vars(DriverStart(t))
       /\ WF_vars(StepUpdateFanout(t))
       /\ WF_vars(StepCompleted(t))
       /\ WF_vars(StepCompletedFanout(t))
       /\ WF_vars(\E success \in BOOLEAN : DriverFinish(t, success))
  /\ \A q \in Streams :
       /\ WF_vars(GenConnect(q))
       /\ WF_vars(GenReplay(q))
       /\ WF_vars(GenReplayNext(q))
       /\ WF_vars(GenLive(q))

FairInit == Init /\ universe \in FairUniverses

FairSpec == FairInit /\ [][Next]_vars /\ Fairness

\* ================================================================= claims
Subscribers(sc, sid) == IF sid \in DOMAIN sc THEN sc[sid] ELSE {}
Log(se, sid) == IF sid \in DOMAIN se THEN se[sid] ELSE <<>>

FannedOut(sid) ==
  IF \E t \in Tasks : task[t].stamp # 0 /\ task'[t].stamp = 0
  THEN LET t == CHOOSE u \in Tasks : task[u].stamp # 0 /\ task'[u].stamp = 0
       IN  IF task[t].target = sid THEN <<task[t].stamp>> ELSE <<>>
  ELSE IF \E t \in Tasks : task[t].stamp = 0 /\ task'[t].stamp # 0
  THEN <<>>
  ELSE [i \in 1..(clock'[sid] - clock[sid]) |-> clock[sid] + i]

\* C2: in a step that fans out k events on a session, a subscriber
\* registered for it with f free places receives the first min(k, f) of them,
\* each once and in order, behind what it already held; it stays registered
\* if all k fitted and is removed from the registry within the step if its
\* channel was found full.  Other channels are not written.
C2_FullSubscriberDropped ==
  [][\A sid \in SessionIds :
       FannedOut(sid) # <<>> =>
         /\ \A q \in Subscribers(session_connections, sid) :
              LET k == Len(FannedOut(sid))
                  free == QUEUE_MAXSIZE - Len(queues[q])
                  got == Min(k, free)
              IN  /\ Len(queues'[q]) = Len(queues[q]) + got
                  /\ SubSeq(queues'[q], 1, Len(queues[q])) = queues[q]
                  /\ \A i \in 1..got :
                       /\ queues'[q][Len(queues[q]) + i].timestamp = FannedOut(sid)[i]
                       /\ queues'[q][Len(queues[q]) + i].session_id = sid
                  /\ (q \in Subscribers(session_connections', sid)) <=> (k <= free)
         /\ \A q \in Streams \ Subscribers(session_connections, sid) :
              queues'[q] = queues[q]]_vars

\* C2 witness: one broadcast found stream 1 full and dropped it, and was
\* delivered to stream 2, which is still registered.
C2_Witness ==
  \E sid \in DOMAIN session_connections :
    /\ stream[1].pc = "live" /\ stream[1].session_id = sid
    /\ stream[2].session_id = sid
    /\ session_connections[sid] = {2}
    /\ Len(queues[1]) = QUEUE_MAXSIZE
    /\ queues[2] # <<>>
    /\ queues[2][Len(queues[2])].timestamp = clock[sid]
    /\ queues[1][Len(queues[1])].timestamp = clock[sid] - 1

\* C3: a delete request on an existing session removes the session, its log
\* and its registry entry together when no subscriber is registered, and
\* leaves all three unchanged when at least one is.
C3_CleanupIffNoSubscriber ==
  [][\A sid \in SessionIds :
       (response'.op = "delete" /\ response'.code = 200 /\ response'.session_id = sid) =>
         IF Subscribers(session_connections, sid) # {}
         THEN /\ sessions' = sessions
              /\ session_events' = session_events
              /\ session_connections' = session_connections
         ELSE /\ sid \in DOMAIN sessions
              /\ sid \notin DOMAIN sessions'
              /\ sid \notin DOMAIN session_events'
              /\ sid \notin DOMAIN session_connections'
              /\ \A other \in SessionIds \ {sid} :
                   /\ (other \in DOMAIN sessions') = (other \in DOMAIN sessions)
                   /\ (other \in DOMAIN session_events') = (other \in DOMAIN session_events)]_vars

\* C3 witness: a delete request was answered while a subscriber was
\* registered, and the session and its stored events are still there.
C3_Witness ==
  /\ response.op = "delete" /\ response.code = 200
  /\ response.session_id \in DOMAIN sessions
  /\ response.session_id \in DOMAIN session_events
  /\ Subscribers(session_connections, response.session_id) # {}

\* C10: a step that broadcasts on a session with no registered subscriber
\* (with or without a log) leaves the session with a log that is the old one
\* followed by the new events, cut to the newest MAX_EVENTS_PER_SESSION, and
\* leaves the subscriber registry unchanged.
C10_BroadcastWithoutSubscribers ==
  [][\A sid \in SessionIds :
       (clock'[sid] > clock[sid] /\ Subscribers(session_connections, sid) = {}) =>
         LET old == Log(session_events, sid)
             k == clock'[sid] - clock[sid]
             new == Log(session_events', sid)
         IN  /\ sid \in DOMAIN session_events'
             /\ Len(new) = Min(Len(old) + k, MAX_EVENTS_PER_SESSION)
             /\ \A i \in 1..Len(new) :
                  LET j == Len(old) + k - Len(new) + i IN
                  IF j <= Len(old) THEN new[i] = old[j]
                  ELSE /\ new[i].timestamp = clock[sid] + (j - Len(old))
                       /\ new[i].session_id = sid
             /\ session_connections' = session_connections]_vars

\* C10 witness: the first events of a session were broadcast with no log yet
\* and no subscriber, and its log now starts with the first of them.
C10_Witness ==
  \E sid \in DOMAIN session_events :
    /\ universe.streams = 0
    /\ session_connections = EmptyDict
    /\ session_events[sid][1].timestamp = 1


IsHistorical(x) == x.is_historical
IsLive(x) == ~x.is_historical

\* C4: a stream that has finished replaying has emitted as historical exactly
\* the last min(k, REPLAY_LIMIT) events of the log as it stood, with k
\* events, when the stream connected, in log order, and after them as live
\* only events broadcast after it connected.
C4_ReplayThenLive ==
  \A q \in Streams :
    stream[q].pc = "live" =>
      LET hist == SelectSeq(stream[q].emitted, IsHistorical)
          live == SelectSeq(stream[q].emitted, IsLive)
          old == stream[q].log_at_open
          n == Min(Len(old), REPLAY_LIMIT)
      IN  /\ Len(hist) = n
          /\ \A i \in 1..n : hist[i].event = old[Len(old) - n + i]
          /\ stream[q].emitted = hist \o live
          /\ \A i \in 1..Len(live) :
               live[i].event.timestamp > stream[q].connected_at

\* The order in which a successful execution appends to its session's log.
SuccessOrder(kinds) ==
  /\ Len(kinds) >= 3
  /\ kinds[1] = "user_message"
  /\ kinds[2] = "session_started"
  /\ kinds[Len(kinds)] = "session_completed"
  /\ \A i \in 3..(Len(kinds) - 1) : kinds[i] \in {"step_update", "step_completed"}

Finishes(t) == task[t].pc # "done" /\ task'[t].pc = "done"

C6_UnsupportedToolRejected ==
  [][(response'.op = "create"
        /\ ~(tool_map[response'.query_type] \subseteq available_tools)) =>
       /\ response'.code = 400
       /\ response'.session_id = NoSessionId
       /\ sessions' = sessions
       /\ allocated' = allocated]_vars

\* Where a task is while its collaborator call is with the worker pool.
InFlight == {"executing", "update_appended", "step", "completed_appended"}

\* C7: a continue request on a session whose status is running is answered
\* with a conflict (409) and changes nothing: the session store, the bus, the
\* streams and the tasks are as before, no task is spawned, and the
\* execution that set the status is still in flight.
C7_ContinueRunningConflict ==
  [][\A sid \in DOMAIN sessions :
       (response'.op = "continue" /\ response'.session_id = sid
          /\ sessions[sid].status = "running") =>
         /\ response'.code = 409
         /\ UNCHANGED <<sessions, session_events, session_connections, queues,
                        current_session_id, task, stream, allocated, clock>>
         /\ \E t \in Tasks : /\ task'[t].session_id = sid
                             /\ task'[t].pc \in InFlight]_vars

\* C7 witness: a continue request was just refused with a conflict while
\* the session's execution is running.
C7_Witness ==
  /\ response.op = "continue" /\ response.code = 409
  /\ response.session_id \in DOMAIN sessions
  /\ sessions[response.session_id].status = "running"
  /\ \E t \in Tasks : task[t].session_id = response.session_id /\ task[t].pc = "executing"

\* C8: started_at changes only from unset to set, and only in the update that
\* takes the session from pending to running.
C8_StartedAtWrittenOnce ==
  [][\A sid \in DOMAIN sessions :
       (sid \in DOMAIN sessions'
          /\ sessions'[sid].started_at # sessions[sid].started_at) =>
         /\ sessions[sid].started_at = None
         /\ sessions[sid].status = "pending"
         /\ started_from'[sid] = Some(<<"pending", "running">>)]_vars

\* C8 witness: a revived session is running again and still carries the
\* started_at of its first execution.
C8_Witness ==
  \E sid \in DOMAIN sessions :
    /\ sessions[sid].status = "running"
    /\ sessions[sid].started_at = Some(1)
    /\ clock[sid] >= 5

\* C9: a session whose status is completed or failed has exactly one of
\* result and error set.
C9_ExactlyOneOfResultAndError ==
  \A sid \in DOMAIN sessions :
    sessions[sid].status \in {"completed", "failed"} =>
      (sessions[sid].result # None) # (sessions[sid].error # None)

\* C9 witness: a session with a failed execution and a later successful one
\* is completed, with a result and no error.
C9_Witness ==
  \E sid \in DOMAIN sessions :
    /\ sessions[sid].status = "completed"
    /\ sessions[sid].result # None /\ sessions[sid].error = None
    /\ \E t, u \in Tasks :
         /\ task[t].session_id = sid /\ task[t].pc = "done"
         /\ task[t].outcome \in {"failure", "raised"}
         /\ task[u].session_id = sid /\ task[u].pc = "done"
         /\ task[u].outcome = "success"


Terminal == {"completed", "failed"}

\* C11: a continue request accepted on a completed or failed session leaves
\* it pending with completed_at, result, error and execution_time cleared
\* and created_at as before.
C11_RevivalClearsTerminalFields ==
  [][\A sid \in DOMAIN sessions :
       (response'.op = "continue" /\ response'.code = 200
          /\ response'.session_id = sid
          /\ sessions[sid].status \in Terminal) =>
         /\ sid \in DOMAIN sessions'
         /\ sessions'[sid].status = "pending"
         /\ sessions'[sid].created_at = sessions[sid].created_at
         /\ sessions'[sid].completed_at = None
         /\ sessions'[sid].result = None
         /\ sessions'[sid].error = None
         /\ sessions'[sid].execution_time = None]_vars

\* C12: when an execution ends in failure, by an error the collaborator call
\* returned or by an exception caught at the task boundary, the last event
\* it appended is session_failed and its session, if still stored, is
\* failed with an error.
C12_FailureFinalizesAndBroadcasts ==
  [][\A t \in Tasks :
       (Finishes(t) /\ task'[t].outcome \in {"failure", "raised"}) =>
         LET sid == task'[t].session_id
             kinds == task'[t].appended IN
         /\ kinds # <<>> /\ kinds[Len(kinds)] = "session_failed"
         /\ sid \in DOMAIN sessions' =>
              /\ sessions'[sid].status = "failed"
              /\ sessions'[sid].error # None]_vars


\* C13: the queue of a closed stream is in no session's subscriber set.
C13_ClosedStreamUnregistered ==
  \A q \in Streams :
    stream[q].pc = "closed" =>
      \A sid \in DOMAIN session_connections : q \notin session_connections[sid]

\* C13 witness: stream 1 registered and has closed, while stream 2 is still
\* registered for the session.
C13_Witness ==
  /\ stream[1].pc = "closed"
  /\ stream[2].pc \in {"connected", "replaying", "live"}
  /\ \E sid \in DOMAIN session_connections : session_connections[sid] = {2}


\* C14: of two different stored events a stream has emitted, replayed or
\* live, the one emitted first was appended to the session's log first (the
\* k-th event appended on a session carries timestamp k).
C14_StreamRespectsAppendOrder ==
  \A q \in Streams :
    \A i, j \in 1..Len(stream[q].emitted) :
      i < j => stream[q].emitted[i].event.timestamp <= stream[q].emitted[j].event.timestamp


\* C15: the events request with limit L on a stored session returns at most
\* L events, the last min(L, length) events of the session's log in log
\* order, for every L >= 0.
C15_RecentEventsBounded ==
  [][(response'.op = "events" /\ response'.code = 200 /\ response'.limit >= 0) =>
       LET log == Log(session_events, response'.session_id)
           L == response'.limit
           got == response'.events
           n == Min(L, Len(log))
       IN  /\ Len(got) <= L
           /\ Len(got) = n
           /\ \A i \in 1..n : got[i] = log[Len(log) - n + i]]_vars


\* C16: a step notification reported during an execution in flight is
\* broadcast to the session of that execution: when stream_step has read the
\* slot the notification is not dropped, and the session it broadcasts
\* step_update and step_completed to is the execution's own.
C16_StepAttributedToOwnSession ==
  [][\A t \in Tasks :
       (task[t].pc = "executing" /\ task'[t] # task[t] /\ task'[t].pc # "done") =>
         /\ task'[t].pc = "update_appended"
         /\ task'[t].target = task[t].session_id
         /\ Len(Log(session_events', task[t].session_id)) > 0
         /\ LET log == Log(session_events', task[t].session_id) IN
              /\ log[Len(log)].event_type = "step_update"
              /\ log[Len(log)].session_id = task[t].session_id]_vars


\* A worker thread is between the log append and the fan-out of a broadcast.
Broadcasting(t) == task[t].pc \in {"update_appended", "completed_appended"}

\* C17: while a broadcast on a session is between its log append and the end
\* of its fan-out, no other step registers or removes a subscriber of that
\* session or broadcasts on it.
C17_BroadcastIsExclusive ==
  [][\A t \in Tasks :
       (Broadcasting(t) /\ task'[t] = task[t]) =>
         LET sid == task[t].target IN
         /\ Subscribers(session_connections', sid) = Subscribers(session_connections, sid)
         /\ clock'[sid] = clock[sid]]_vars


\* C18: in every session's log, a step_update event that is not the last
\* entry is directly followed by a step_completed event.
C18_StepPairAdjacent ==
  \A sid \in DOMAIN session_events :
    \A i \in 1..(Len(session_events[sid]) - 1) :
      session_events[sid][i].event_type = "step_update" =>
        session_events[sid][i + 1].event_type = "step_completed"


\* C19: the subscriber registry holds no entry whose subscriber set is empty.
C19_NoEmptyRegistryEntry ==
  \A sid \in DOMAIN session_connections : session_connections[sid] # {}

\* C19 witness: the only subscriber of a session was dropped by a broadcast
\* that found its queue full, and the session has no registry entry.
C19_Witness ==
  \E q \in Streams :
    /\ stream[q].pc = "live"
    /\ Len(queues[q]) = QUEUE_MAXSIZE
    /\ stream[q].session_id \in DOMAIN session_events
    /\ stream[q].session_id \notin DOMAIN session_connections
    /\ clock[stream[q].session_id] > queues[q][Len(queues[q])].timestamp


\* The kinds of event that broadcast_event is called with.
StoredKinds == {"user_message", "session_started", "step_update",
                "step_completed", "session_completed", "session_failed"}

\* C20: every event in a log or waiting in a queue is of a stored kind,
\* never connected or heartbeat; and a step that emits connected or
\* heartbeat changes no log and writes no queue.
C20_SyntheticEventsNotStored ==
  /\ [](/\ \A sid \in DOMAIN session_events :
             \A i \in 1..Len(session_events[sid]) :
               session_events[sid][i].event_type \in StoredKinds
        /\ \A q \in Streams :
             \A i \in 1..Len(queues[q]) : queues[q][i].event_type \in StoredKinds)
  /\ [][response'.op \in {"connected", "heartbeat"} =>
          /\ session_events' = session_events
          /\ queues' = queues]_vars

\* C20 witness: a stream has just emitted a heartbeat while the session has
\* stored events and another subscriber with events waiting.
C20_Witness ==
  /\ response.op = "heartbeat"
  /\ Log(session_events, response.session_id) # <<>>
  /\ \E q \in Subscribers(session_connections, response.session_id) : queues[q] # <<>>


\* The session of task t is deleted or in a terminal state.
Settled(t) ==
  \/ task[t].session_id \notin DOMAIN sessions
  \/ sessions[task[t].session_id].status \in Terminal

\* C21: whenever an execution has been spawned for a session, by a create
\* or by an accepted continue request, the session is later completed,
\* failed or deleted.
C21_SpawnedSessionSettles ==
  \A t \in Tasks : (task[t].pc = "spawned") ~> Settled(t)

\* C21 witness: the execution spawned by an accepted continue request has
\* finished and its session, still stored, is in a terminal state.
C21_Witness ==
  \E t \in Tasks :
    /\ task[t].origin = "continue" /\ task[t].pc = "done"
    /\ task[t].session_id \in DOMAIN sessions
    /\ sessions[task[t].session_id].status \in Terminal


Statuses == {"pending", "running", "completed", "failed"}

\* C22: update_session_status called with an id that is not in the session
\* store returns the store as it is, whatever the other arguments; and the
\* step in which a driver finishes for a session deleted meanwhile leaves
\* the session store unchanged.
C22_UpdateUnknownIsNoOp ==
  /\ [](\A sid \in SessionIds \ DOMAIN sessions :
          \A status \in Statuses :
            \A result \in {None} \cup {Some(r) : r \in Results} :
              \A error \in {None} \cup {Some(e) : e \in Errors} :
                update_session_status(sessions, sid, status, result, error,
                                      Some(ExecutionTime), clock[sid]) = sessions)
  /\ [][\A t \in Tasks :
          (Finishes(t) /\ task[t].session_id \notin DOMAIN sessions) =>
            sessions' = sessions]_vars

\* C22 witness: an execution has finished with success for a session that
\* was deleted while it ran, and the session store has no entry for it.
C22_Witness ==
  \E t \in Tasks :
    /\ task[t].pc = "done" /\ task[t].outcome = "success"
    /\ task[t].session_id \in allocated
    /\ task[t].session_id \notin DOMAIN sessions


\* Stream q has registered, has not ended, and its queue is no longer in the
\* subscriber set of its session: a broadcast found the queue full.
DroppedByOverflow(q) ==
  /\ stream[q].pc \in {"connected", "replaying", "live"}
  /\ q \notin Subscribers(session_connections, stream[q].session_id)

\* C23: a stream whose subscriber was removed by a broadcast that found its
\* queue full later reaches closed.
C23_OverflowClosesStream ==
  \A q \in Streams : DroppedByOverflow(q) ~> (stream[q].pc = "closed")


\* C24: a session whose status is completed or failed has completed_at and
\* execution_time set.
C24_TerminalHasTimeAndDuration ==
  \A sid \in DOMAIN sessions :
    sessions[sid].status \in Terminal =>
      /\ sessions[sid].completed_at # None
      /\ sessions[sid].execution_time # None


\* C25: every session id that has an event log has an entry in the session
\* store.
C25_NoOrphanLog ==
  DOMAIN session_events \subseteq DOMAIN sessions

\* C26: every session id that has subscribers registered has an entry in the
\* session store.
C26_SubscribersOfStoredSessions ==
  \A sid \in DOMAIN session_connections :
    session_connections[sid] # {} => sid \in DOMAIN sessions


\* An execution that has been spawned and has not finished.
Unfinished(t) == task[t].pc \in {"spawned"} \cup InFlight

\* C27: no two unfinished executions are for the same session.
C27_OneDriverPerSession ==
  \A t, u \in Tasks :
    (t # u /\ Unfinished(t) /\ Unfinished(u)) =>
      task[t].session_id # task[u].session_id


\* C28: no stored event is emitted twice by one stream; in particular none
\* both as historical and as live.
C28_NoDuplicateEmission ==
  \A q \in Streams :
    \A i, j \in 1..Len(stream[q].emitted) :
      i # j => stream[q].emitted[i].event # stream[q].emitted[j].event


\* C29: for a session in the store, the status read at the moment its driver
\* broadcasts session_started is running; at the moment it broadcasts
\* session_completed the status is completed and the result is set; at the
\* moment it broadcasts session_failed the status is failed and the error is
\* set.
C29_StatusWrittenBeforeEvent ==
  \A t \in Tasks :
    \A i \in 1..Len(task[t].published) :
      LET p == task[t].published[i] IN
      p.status # None =>
        /\ p.event_type = "session_started" => p.status = Some("running")
        /\ p.event_type = "session_completed" =>
             (p.status = Some("completed") /\ p.result # None)
        /\ p.event_type = "session_failed" =>
             (p.status = Some("failed") /\ p.error # None)

\* C29 witness: a continued execution of a stored session has broadcast
\* session_started and then session_completed.
C29_Witness ==
  \E t \in Tasks :
    /\ task[t].origin = "continue" /\ task[t].pc = "done"
    /\ Len(task[t].published) = 2
    /\ task[t].published[1].status = Some("running")
    /\ task[t].published[2].event_type = "session_completed"
    /\ task[t].published[2].status = Some("completed")

=============================================================================
